---- MODULE Spec2Model ----
(***************************************************************************)
(* The batch conversion / transcription pipeline of wa_audio_to_text:      *)
(* main.py (convert_opus_to_wav, extract_audio_from_mp4, format_transcript,*)
(* transcribe_audio, process_files, main) and cli.py (mv, process,         *)
(* transcribe, clean).                                                     *)
(*                                                                         *)
(* Text is a sequence of one-character strings.  Times are whole           *)
(* milliseconds.  A file stem is a number; the order of the numbers is the *)
(* lexicographic order of the paths they stand for (1 = "a", 2 = "b", ...).*)
(* ffmpeg and whisper are outside the repository: their outcome is an      *)
(* input of the step that invokes them.                                    *)
(***************************************************************************)
EXTENDS Integers, Sequences, FiniteSets, TLC

\* ------------------------------------------------------------------ bounds
NumFiles == 3      \* source files in the input directory
MaxCalls == 2      \* direct calls of the library functions in one behaviour
MaxSegs == 2       \* segments in a list given to format_transcript

Stems == 1..NumFiles

\* ------------------------------------------------------------------- text
Absent == <<>>                      \* no file at that path
File(content) == <<content>>        \* a file holding content

IsSpace(c) == c \in {" ", "\t", "\n", "\r"}

RECURSIVE lstrip(_)
lstrip(s) == IF s = <<>> THEN <<>>
             ELSE IF IsSpace(Head(s)) THEN lstrip(Tail(s)) ELSE s

RECURSIVE rstrip(_)
rstrip(s) == IF s = <<>> THEN <<>>
             ELSE IF IsSpace(s[Len(s)]) THEN rstrip(SubSeq(s, 1, Len(s) - 1)) ELSE s

\* str.strip()
strip(s) == rstrip(lstrip(s))

\* the first whitespace-free word of s, s not starting with whitespace
RECURSIVE FirstWord(_)
FirstWord(s) == IF s = <<>> \/ IsSpace(Head(s)) THEN <<>>
                ELSE <<Head(s)>> \o FirstWord(Tail(s))

\* str.split(): the maximal whitespace-free words, in order
RECURSIVE split(_)
split(s) == LET t == lstrip(s)
                w == FirstWord(t)
            IN IF t = <<>> THEN <<>>
               ELSE <<w>> \o split(SubSeq(t, Len(w) + 1, Len(t)))

\* sep.join(words)
RECURSIVE join(_, _)
join(sep, words) == IF words = <<>> THEN <<>>
                    ELSE IF Len(words) = 1 THEN words[1]
                    ELSE words[1] \o sep \o join(sep, Tail(words))

DigitChars == <<"0", "1", "2", "3", "4", "5", "6", "7", "8", "9">>

\* the decimal digits of n >= 0, without padding
RECURSIVE Decimal(_)
Decimal(n) == IF n < 10 THEN <<DigitChars[n + 1]>>
              ELSE Decimal(n \div 10) \o <<DigitChars[(n % 10) + 1]>>

\* n zero-padded to at least w digits (the format specs 02d and the parts of 06.3f)
ZeroPad(n, w) == LET d == Decimal(n)
                 IN IF Len(d) >= w THEN d ELSE [i \in 1..(w - Len(d)) |-> "0"] \o d

\* format_timestamp with the minutes taken of the whole time, not of what the
\* hours leave (seconds // 60 for (seconds % 3600) // 60)
format_timestamp_total_minutes(ms) ==
    LET hours == ms \div 3600000
        minutes == ms \div 60000
        seconds == ms % 60000
    IN ZeroPad(hours, 2) \o <<":">> \o ZeroPad(minutes, 2) \o <<":">>
       \o ZeroPad(seconds \div 1000, 2) \o <<".">> \o ZeroPad(seconds % 1000, 3)

\* format_timestamp, on a time of ms whole milliseconds
format_timestamp(ms) ==
    LET hours == ms \div 3600000
        minutes == (ms % 3600000) \div 60000
        seconds == ms % 60000
    IN ZeroPad(hours, 2) \o <<":">> \o ZeroPad(minutes, 2) \o <<":">>
       \o ZeroPad(seconds \div 1000, 2) \o <<".">> \o ZeroPad(seconds % 1000, 3)

\* the timestamped branch of format_transcript
RECURSIVE FormatTimestamped(_)
FormatTimestamped(segments) ==
    IF segments = <<>> THEN <<>>
    ELSE LET segment == Head(segments)
         IN <<"[">> \o format_timestamp(segment.start) \o <<" ", "-", ">", " ">>
            \o format_timestamp(segment.end) \o <<"]", " ">> \o strip(segment.text)
            \o <<"\n">> \o FormatTimestamped(Tail(segments))

\* the plain branch of format_transcript
FormatPlain(segments) ==
    LET joined == join(<<" ">>, [i \in 1..Len(segments) |-> strip(segments[i].text)])
    IN join(<<" ">>, split(joined)) \o <<"\n">>

format_transcript(segments, timestamps) ==
    IF timestamps THEN FormatTimestamped(segments) ELSE FormatPlain(segments)

\* Path.write_text on POSIX: "\n" is written as os.linesep = "\n", nothing else changes
write_text(data) == data

\* Path.read_text: text mode with universal newlines, "\r\n" and "\r" are read as "\n"
read_text(content) ==
    LET AfterCr(i) == content[i] = "\n" /\ i > 1 /\ content[i - 1] = "\r"
        Kept(i) == ~AfterCr(i)
        kept == SelectSeq([i \in 1..Len(content) |-> i], Kept)
    IN [k \in 1..Len(kept) |-> IF content[kept[k]] = "\r" THEN "\n" ELSE content[kept[k]]]

\* ----------------------------------------------------- cli.py, clean
\* timestamp_pattern, one entry for each character a match has: "d" is \d, any
\* other entry is that character itself
timestamp_pattern ==
    <<"[", "d", "d", ":", "d", "d", ":", "d", "d", ".", "d", "d", "d", " ", "-", ">", " ",
      "d", "d", ":", "d", "d", ":", "d", "d", ".", "d", "d", "d", "]">>

IsDigit(c) == c \in {"0", "1", "2", "3", "4", "5", "6", "7", "8", "9"}

\* timestamp_pattern matches the characters of s that start at position i
MatchAt(s, i) ==
    /\ i + Len(timestamp_pattern) - 1 <= Len(s)
    /\ \A k \in 1..Len(timestamp_pattern) :
          IF timestamp_pattern[k] = "d" THEN IsDigit(s[i + k - 1])
          ELSE s[i + k - 1] = timestamp_pattern[k]

\* re.search(timestamp_pattern, line) finds a match
re_search(line) == \E i \in 1..Len(line) : MatchAt(line, i)

\* the positions of line where a match starts
Matches(line) == {i \in 1..Len(line) : MatchAt(line, i)}
Leftmost(S) == CHOOSE i \in S : \A j \in S : i <= j

\* re.sub with the pattern followed by .* : the match and the rest of the line go
re_sub_rest(line) ==
    IF Matches(line) = {} THEN line
    ELSE SubSeq(line, 1, Leftmost(Matches(line)) - 1)

\* re.sub with count=1: only the leftmost match is removed
re_sub_first(line) ==
    IF Matches(line) = {} THEN line
    ELSE LET i == Leftmost(Matches(line))
         IN SubSeq(line, 1, i - 1) \o SubSeq(line, i + Len(timestamp_pattern), Len(line))

\* re.sub(timestamp_pattern, "", line): the leftmost match is removed and the
\* search goes on from where it ended
RECURSIVE re_sub(_)
re_sub(line) ==
    IF Matches(line) = {} THEN line
    ELSE LET i == Leftmost(Matches(line))
         IN SubSeq(line, 1, i - 1)
            \o re_sub(SubSeq(line, i + Len(timestamp_pattern), Len(line)))

\* the lines of s, each with its "\n" if it has one
Lines(s) ==
    LET IsEnd(i) == s[i] = "\n" \/ i = Len(s)
        ends == SelectSeq([i \in 1..Len(s) |-> i], IsEnd)
    IN [k \in 1..Len(ends) |-> SubSeq(s, IF k = 1 THEN 1 ELSE ends[k - 1] + 1, ends[k])]

\* for line in infile: the lines of a file opened in text mode
readlines(content) == Lines(read_text(content))

\* the loop of remove_timestamps over the lines not yet read; acc is what is
\* written to outfile so far and the three counters
RECURSIVE CleanLoop(_, _)
CleanLoop(lines, acc) ==
    IF lines = <<>> THEN acc
    ELSE LET line == Head(lines)
             clean_line == strip(re_sub(line))
         IN CleanLoop(Tail(lines),
                [outfile |-> IF clean_line # <<>>
                             THEN acc.outfile \o write_text(clean_line \o <<"\n">>)
                             ELSE acc.outfile,
                 total_lines |-> acc.total_lines + 1,
                 lines_with_timestamps |->
                     acc.lines_with_timestamps + (IF re_search(line) THEN 1 ELSE 0),
                 lines_removed |-> acc.lines_removed + (IF clean_line # <<>> THEN 0 ELSE 1)])

\* remove_timestamps on an input file that exists and holds content
remove_timestamps(content) ==
    CleanLoop(readlines(content),
              [outfile |-> <<>>, total_lines |-> 0, lines_with_timestamps |-> 0,
               lines_removed |-> 0])

\* ------------------------------------------------------- the file system
RAW_DIR == "raw"
PROCESSED_DIR == "processed"
TRANSCRIBED_DIR == "transcribed"
OUT_DIR == "out"                    \* an output directory given on the command line

WavDirs == {PROCESSED_DIR, OUT_DIR}
TxtDirs == {TRANSCRIBED_DIR, OUT_DIR}

NoFiles == [s \in Stems |-> Absent]

\* ------------------------------------------------- the external services
\* ffmpeg ends with status 0 and the whole target written, or with a non-zero
\* status having written nothing or a part of the target
FfmpegOutcomes == {"ok", "fail", "fail_partial"}

\* subprocess.run(cmd): the status and what is then at the target path; ffmpeg
\* cannot create the target in a directory that does not exist
ffmpeg(dirExists, ext) ==
    IF ~dirExists \/ ext = "fail" THEN [returncode |-> 1, written |-> Absent]
    ELSE IF ext = "fail_partial" THEN [returncode |-> 1, written |-> File("partial")]
    ELSE [returncode |-> 0, written |-> File("full")]

\* the names whisper.load_model accepts, as transcribe_audio's annotation lists them
WhisperModels == {"tiny", "base", "small", "medium", "large"}
Models == {"base", "bogus"}           \* the model names tried

SegsHi == << [start |-> 0, end |-> 8160, text |-> <<" ", "h", "i", " ">>] >>
SegsCr == << [start |-> 3725500, end |-> 3728160, text |-> <<"a", "\r", "b">>],
             [start |-> 3728160, end |-> 3729000, text |-> <<>>] >>
\* what model.transcribe returns in result["segments"]
InferenceResults == {SegsHi, SegsCr}
\* model.transcribe raises, or returns segments
InferenceOutcomes == {<<"fail">>} \cup {<<"ok", r>> : r \in InferenceResults}

\* a transcript left by an earlier run or put there by hand, with a CRLF line end
PriorText == <<"o", "k", "\r", "\n">>

\* ---------------------------------------------------- main.py, per file
\* convert_opus_to_wav without its wav_file.exists() check: ffmpeg runs every time
convert_opus_to_wav_no_cache(w, ds, stem, ext) ==
    LET result == ffmpeg(PROCESSED_DIR \in ds, ext)
        after == IF result.written = Absent THEN w
                 ELSE [w EXCEPT ![PROCESSED_DIR][stem] = result.written]
    IN IF result.returncode # 0
       THEN [ok |-> FALSE, ret |-> <<>>, wav |-> after, conv |-> 1]
       ELSE [ok |-> TRUE, ret |-> <<PROCESSED_DIR, stem>>, wav |-> after, conv |-> 1]

\* convert_opus_to_wav(opus_file): w is the wav files of every directory, ds the
\* directories that exist, ext what ffmpeg does if it is run
convert_opus_to_wav(w, ds, stem, ext) ==
    IF w[PROCESSED_DIR][stem] # Absent
    THEN [ok |-> TRUE, ret |-> <<PROCESSED_DIR, stem>>, wav |-> w, conv |-> 0]
    ELSE LET result == ffmpeg(PROCESSED_DIR \in ds, ext)
             after == IF result.written = Absent THEN w
                      ELSE [w EXCEPT ![PROCESSED_DIR][stem] = result.written]
         IN IF result.returncode # 0
            THEN [ok |-> FALSE, ret |-> <<>>, wav |-> after, conv |-> 1]
            ELSE [ok |-> TRUE, ret |-> <<PROCESSED_DIR, stem>>, wav |-> after, conv |-> 1]

\* extract_audio_from_mp4(mp4_file, output_dir)
extract_audio_from_mp4(w, ds, stem, output_dir, ext) ==
    IF w[output_dir][stem] # Absent
    THEN [ok |-> TRUE, ret |-> <<output_dir, stem>>, wav |-> w, conv |-> 0]
    ELSE LET result == ffmpeg(output_dir \in ds, ext)
             after == IF result.written = Absent THEN w
                      ELSE [w EXCEPT ![output_dir][stem] = result.written]
         IN IF result.returncode # 0
            THEN [ok |-> FALSE, ret |-> <<>>, wav |-> after, conv |-> 1]
            ELSE [ok |-> TRUE, ret |-> <<output_dir, stem>>, wav |-> after, conv |-> 1]

\* transcribe_audio opening the transcript for writing before it calls the model,
\* so that a failing model.transcribe leaves an empty transcript behind
transcribe_audio_open_first(t, ds, stem, model_str, timestamps, ext) ==
    IF t[TRANSCRIBED_DIR][stem] # Absent
    THEN [ok |-> TRUE, ret |-> read_text(t[TRANSCRIBED_DIR][stem][1]), txt |-> t,
          inf |-> 0, err |-> "none"]
    ELSE IF model_str \notin WhisperModels
    THEN [ok |-> FALSE, ret |-> <<>>, txt |-> t, inf |-> 0, err |-> "load_model"]
    ELSE IF TRANSCRIBED_DIR \notin ds
    THEN [ok |-> FALSE, ret |-> <<>>, txt |-> t, inf |-> 0, err |-> "write_text"]
    ELSE IF ext[1] = "fail"
    THEN [ok |-> FALSE, ret |-> <<>>, txt |-> [t EXCEPT ![TRANSCRIBED_DIR][stem] = File(<<>>)],
          inf |-> 1, err |-> "transcribe"]
    ELSE LET formatted_transcript == format_transcript(ext[2], timestamps)
         IN [ok |-> TRUE, ret |-> formatted_transcript,
             txt |-> [t EXCEPT ![TRANSCRIBED_DIR][stem] =
                                   File(write_text(formatted_transcript))],
             inf |-> 1, err |-> "none"]

\* transcribe_audio(audio_file, model_str, timestamps): t is the transcripts of
\* every directory, ext what model.transcribe does if it is called.  err names
\* the statement that raised: "load_model", "transcribe", "write_text" or "none"
transcribe_audio(t, ds, stem, model_str, timestamps, ext) ==
    IF t[TRANSCRIBED_DIR][stem] # Absent
    THEN [ok |-> TRUE, ret |-> read_text(t[TRANSCRIBED_DIR][stem][1]), txt |-> t,
          inf |-> 0, err |-> "none"]
    ELSE IF model_str \notin WhisperModels
    THEN [ok |-> FALSE, ret |-> <<>>, txt |-> t, inf |-> 0, err |-> "load_model"]
    ELSE IF ext[1] = "fail"
    THEN [ok |-> FALSE, ret |-> <<>>, txt |-> t, inf |-> 1, err |-> "transcribe"]
    ELSE LET formatted_transcript == format_transcript(ext[2], timestamps)
         IN IF TRANSCRIBED_DIR \notin ds
            THEN [ok |-> FALSE, ret |-> <<>>, txt |-> t, inf |-> 1, err |-> "write_text"]
            ELSE [ok |-> TRUE, ret |-> formatted_transcript,
                  txt |-> [t EXCEPT ![TRANSCRIBED_DIR][stem] =
                                        File(write_text(formatted_transcript))],
                  inf |-> 1, err |-> "none"]

\* ------------------------------------------------------------------ state
VARIABLES
    dirs,        \* the directories that exist
    wav,         \* wav[d][stem]: the .wav file of a stem in directory d, or Absent
    txt,         \* txt[d][stem]: the .txt file of a stem in directory d, or Absent
    calls,       \* log of the direct calls made so far, oldest first
    pc,          \* where the running batch command is: "idle" when none runs
    cmd,         \* the batch command run last and its arguments
    files,       \* the list the command got from glob, in listing order
    idx,         \* index in files of the file the loop is at
    transcript,  \* process_files: the text transcribe_audio returned for that file
    processed,   \* the command's counters
    skipped,
    failed,
    outcome,     \* how the last command ended: "none", "ok" (returned), "error" (raised)
    status,      \* per stem, where the file is in process_files
    visited,     \* the stems the loop has taken, in the order it took them
    failedOn,    \* the stems on which a step of this run failed
    prior,       \* the stems whose output artifact existed when the run began
    convCalls,   \* per stem, the ffmpeg runs of this run
    infCalls,    \* per stem, the model.transcribe calls of this run
    returned,    \* per stem, what model.transcribe returned for it in this run
    failedAt,    \* per stem, the call that raised for it in this run, or "none"
    first,       \* what the command's first run left, once it is run again
    segments,    \* the segment list given to format_transcript
    formatted,   \* the text format_transcript returned, with the mode it was given
    cleaned      \* what the clean command made of that text, with its counters, and
                 \* what a second run of it made of the first run's output

fsVars == <<dirs, wav, txt>>
fmtVars == <<segments, formatted, cleaned>>
runVars == <<pc, cmd, files, idx, transcript, processed, skipped, failed, outcome, status,
             visited, failedOn, prior, convCalls, infCalls, returned, failedAt, first>>
batchVars == <<runVars, fmtVars>>
vars == <<dirs, wav, txt, calls, pc, cmd, files, idx, transcript, processed, skipped, failed,
          outcome, status, visited, failedOn, prior, convCalls, infCalls, returned, failedAt,
          first, segments, formatted, cleaned>>

\* nothing returned, nothing formatted or cleaned yet, no earlier run
NoResult == <<>>
NotYet == <<>>
NoRun == <<>>

NoCmd == [name |-> "none", input_dir |-> "none", input_missing |-> FALSE,
          output_dir |-> "none", model |-> "none", timestamps |-> FALSE]

\* no command has run, no call was made
InitControl ==
    /\ calls = <<>>
    /\ pc = "idle"
    /\ cmd = NoCmd
    /\ files = <<>>
    /\ idx = 0
    /\ transcript = <<>>
    /\ processed = 0
    /\ skipped = 0
    /\ failed = 0
    /\ outcome = "none"
    /\ status = [s \in Stems |-> "none"]
    /\ visited = <<>>
    /\ failedOn = {}
    /\ prior = {}
    /\ convCalls = [s \in Stems |-> 0]
    /\ infCalls = [s \in Stems |-> 0]
    /\ returned = [s \in Stems |-> NoResult]
    /\ failedAt = [s \in Stems |-> "none"]
    /\ first = NoRun
    /\ formatted = NotYet
    /\ cleaned = NotYet

\* --------------------------------------------- direct calls of main.py
CallRecord(fn, dir, stem, model, timestamps, existed, r, err) ==
    [fn |-> fn, dir |-> dir, stem |-> stem, model |-> model, timestamps |-> timestamps,
     existed |-> existed,
     ok |-> r.ok, ret |-> r.ret, conv |-> r.conv, inf |-> r.inf, err |-> err,
     wavBefore |-> wav, txtBefore |-> txt]

\* a caller calls convert_opus_to_wav(raw/<stem>.opus)
ConvertOpusToWav(stem, ext) ==
    /\ pc = "idle" /\ Len(calls) < MaxCalls
    /\ LET r == convert_opus_to_wav(wav, dirs, stem, ext)
       IN /\ wav' = r.wav
          /\ calls' = Append(calls, CallRecord("convert_opus_to_wav", PROCESSED_DIR, stem,
                          "none", FALSE, wav[PROCESSED_DIR][stem] # Absent,
                          [ok |-> r.ok, ret |-> r.ret, conv |-> r.conv, inf |-> 0],
                          IF r.ok THEN "none" ELSE "ffmpeg"))
    /\ UNCHANGED <<dirs, txt, batchVars>>

\* a caller calls extract_audio_from_mp4(raw/<stem>.mp4, output_dir)
ExtractAudioFromMp4(stem, output_dir, ext) ==
    /\ pc = "idle" /\ Len(calls) < MaxCalls
    /\ LET r == extract_audio_from_mp4(wav, dirs, stem, output_dir, ext)
       IN /\ wav' = r.wav
          /\ calls' = Append(calls, CallRecord("extract_audio_from_mp4", output_dir, stem,
                          "none", FALSE, wav[output_dir][stem] # Absent,
                          [ok |-> r.ok, ret |-> r.ret, conv |-> r.conv, inf |-> 0],
                          IF r.ok THEN "none" ELSE "ffmpeg"))
    /\ UNCHANGED <<dirs, txt, batchVars>>

\* a caller calls transcribe_audio(<stem>.wav, model_str, timestamps)
TranscribeAudio(stem, model_str, timestamps, ext) ==
    /\ pc = "idle" /\ Len(calls) < MaxCalls
    /\ LET r == transcribe_audio(txt, dirs, stem, model_str, timestamps, ext)
       IN /\ txt' = r.txt
          /\ calls' = Append(calls, CallRecord("transcribe_audio", TRANSCRIBED_DIR, stem,
                          model_str, timestamps, txt[TRANSCRIBED_DIR][stem] # Absent,
                          [ok |-> r.ok, ret |-> r.ret, conv |-> 0, inf |-> r.inf], r.err))
    /\ UNCHANGED <<dirs, wav, batchVars>>

\* ----------------------------------------------------------- cli.py: mv
\* mv "<source>/*.<kind>" <target>: every matching file moves to the target
\* directory, which is created if missing; a file of the same name there is replaced
Moved(fs, source, target) ==
    [fs EXCEPT ![source] = NoFiles,
               ![target] = [s \in Stems |-> IF fs[source][s] # Absent THEN fs[source][s]
                                            ELSE fs[target][s]]]

mv(kind, source, target) ==
    /\ pc = "idle" /\ Len(calls) < MaxCalls
    /\ source # target
    /\ dirs' = dirs \cup {target}
    /\ IF kind = "wav"
       THEN wav' = Moved(wav, source, target) /\ txt' = txt
       ELSE txt' = Moved(txt, source, target) /\ wav' = wav
    /\ calls' = Append(calls, CallRecord("mv", source, 1, kind, FALSE, FALSE,
                          [ok |-> TRUE, ret |-> <<>>, conv |-> 0, inf |-> 0], "none"))
    /\ UNCHANGED batchVars

\* ------------------------------------------------------ batch commands
Range(seq) == {seq[i] : i \in 1..Len(seq)}

\* list(directory.glob(pattern)): the matching files in the order the file
\* system lists them, which is any order; nothing when the directory is missing
Listings(stems) ==
    {p \in [1..Cardinality(stems) -> stems] :
        \A i, j \in 1..Cardinality(stems) : i # j => p[i] # p[j]}

\* the raw directory, when it exists, holds one source file per stem
RawFiles(ds) == IF RAW_DIR \in ds THEN Stems ELSE {}
WavFiles(w, ds, d) == IF d \in ds THEN {s \in Stems : w[d][s] # Absent} ELSE {}

\* a command starts: its counters and the record of its run are reset
StartRun(command, listing, had) ==
    /\ cmd' = command
    /\ files' = listing
    /\ idx' = 1
    /\ transcript' = <<>>
    /\ processed' = 0 /\ skipped' = 0 /\ failed' = 0
    /\ status' = [s \in Stems |-> IF s \in Range(listing) THEN "Discovered" ELSE "none"]
    /\ visited' = <<>>
    /\ failedOn' = {}
    /\ prior' = had
    /\ convCalls' = [s \in Stems |-> 0]
    /\ infCalls' = [s \in Stems |-> 0]
    /\ returned' = [s \in Stems |-> NoResult]
    /\ failedAt' = [s \in Stems |-> "none"]

\* what model.transcribe returned in a call of transcribe_audio that reached it
Returned(r, ext) == IF r.inf = 1 /\ ext[1] = "ok" THEN <<ext[2]>> ELSE NoResult

\* the loop goes to its next file, or the command ends after the last one
NextFile(loop) ==
    IF idx < Len(files)
    THEN idx' = idx + 1 /\ pc' = loop /\ outcome' = outcome
    ELSE idx' = idx /\ pc' = "idle" /\ outcome' = "ok"

\* main(): setup_directories(), then process_files() up to its loop
MainRun ==
    /\ pc = "idle"
    /\ IF RAW_DIR \notin dirs
       THEN \* setup_directories raises FileNotFoundError, main re-raises it
            /\ StartRun([NoCmd EXCEPT !.name = "main", !.input_dir = RAW_DIR,
                                      !.input_missing = TRUE], <<>>, {})
            /\ pc' = "idle" /\ outcome' = "error"
            /\ dirs' = dirs
       ELSE /\ dirs' = dirs \cup {PROCESSED_DIR, TRANSCRIBED_DIR}
            /\ \E opus_files \in Listings(RawFiles(dirs)) :
                  /\ StartRun([NoCmd EXCEPT !.name = "main", !.input_dir = RAW_DIR,
                                            !.output_dir = TRANSCRIBED_DIR],
                              opus_files,
                              {s \in Stems : txt[TRANSCRIBED_DIR][s] # Absent})
                  /\ IF opus_files = <<>>
                     THEN pc' = "idle" /\ outcome' = "ok"
                     ELSE pc' = "pf_check" /\ outcome' = "none"
    /\ UNCHANGED <<wav, txt, calls, fmtVars>>

\* python main.py, run once
Main ==
    /\ cmd = NoCmd
    /\ MainRun
    /\ first' = first

\* process_files without its test for an existing transcript
PfCheck_no_skip ==
    /\ UNCHANGED <<first, fmtVars>>
    /\ pc = "pf_check"
    /\ LET opus_file == files[idx]
       IN /\ visited' = Append(visited, opus_file)
          /\ IF FALSE
             THEN /\ status' = [status EXCEPT ![opus_file] = "Skipped"]
                  /\ NextFile("pf_check")
             ELSE /\ status' = status
                  /\ pc' = "pf_convert" /\ idx' = idx /\ outcome' = outcome
    /\ UNCHANGED <<fsVars, calls, cmd, files, transcript, processed, skipped, failed,
                   failedOn, prior, convCalls, infCalls, returned, failedAt>>

\* process_files, top of the loop body: skip the file if its transcript exists
PfCheck ==
    /\ UNCHANGED <<first, fmtVars>>
    /\ pc = "pf_check"
    /\ LET opus_file == files[idx]
       IN /\ visited' = Append(visited, opus_file)
          /\ IF txt[TRANSCRIBED_DIR][opus_file] # Absent
             THEN /\ status' = [status EXCEPT ![opus_file] = "Skipped"]
                  /\ NextFile("pf_check")
             ELSE /\ status' = status
                  /\ pc' = "pf_convert" /\ idx' = idx /\ outcome' = outcome
    /\ UNCHANGED <<fsVars, calls, cmd, files, transcript, processed, skipped, failed,
                   failedOn, prior, convCalls, infCalls, returned, failedAt>>

\* process_files going on to transcribe_audio although convert_opus_to_wav raised
PfConvert_ignore_failure(ext) ==
    /\ UNCHANGED <<first, fmtVars>>
    /\ pc = "pf_convert"
    /\ LET opus_file == files[idx]
           r == convert_opus_to_wav(wav, dirs, opus_file, ext)
       IN /\ wav' = r.wav
          /\ convCalls' = [convCalls EXCEPT ![opus_file] = @ + r.conv]
          /\ status' = [status EXCEPT ![opus_file] = "Converted"]
          /\ failedOn' = failedOn /\ failedAt' = failedAt
          /\ pc' = "pf_transcribe" /\ idx' = idx /\ outcome' = outcome
    /\ UNCHANGED <<dirs, txt, calls, cmd, files, transcript, processed, skipped, failed,
                   visited, prior, infCalls, returned>>

\* process_files taking the same file again when convert_opus_to_wav raised
PfConvert_retry(ext) ==
    /\ UNCHANGED <<first, fmtVars>>
    /\ pc = "pf_convert"
    /\ LET opus_file == files[idx]
           r == convert_opus_to_wav(wav, dirs, opus_file, ext)
       IN /\ wav' = r.wav
          /\ convCalls' = [convCalls EXCEPT ![opus_file] = @ + r.conv]
          /\ IF r.ok
             THEN /\ status' = [status EXCEPT ![opus_file] = "Converted"]
                  /\ failedOn' = failedOn /\ failedAt' = failedAt
                  /\ pc' = "pf_transcribe" /\ idx' = idx /\ outcome' = outcome
             ELSE /\ status' = [status EXCEPT ![opus_file] = "Failed"]
                  /\ failedOn' = failedOn \cup {opus_file}
                  /\ failedAt' = [failedAt EXCEPT ![opus_file] = "convert"]
                  /\ pc' = "pf_check" /\ idx' = idx /\ outcome' = outcome
    /\ UNCHANGED <<dirs, txt, calls, cmd, files, transcript, processed, skipped, failed,
                   visited, prior, infCalls, returned>>

\* process_files: wav_file = convert_opus_to_wav(opus_file)
PfConvert(ext) ==
    /\ UNCHANGED <<first, fmtVars>>
    /\ pc = "pf_convert"
    /\ LET opus_file == files[idx]
           r == convert_opus_to_wav(wav, dirs, opus_file, ext)
       IN /\ wav' = r.wav
          /\ convCalls' = [convCalls EXCEPT ![opus_file] = @ + r.conv]
          /\ IF r.ok
             THEN /\ status' = [status EXCEPT ![opus_file] = "Converted"]
                  /\ failedOn' = failedOn /\ failedAt' = failedAt
                  /\ pc' = "pf_transcribe" /\ idx' = idx /\ outcome' = outcome
             ELSE /\ status' = [status EXCEPT ![opus_file] = "Failed"]
                  /\ failedOn' = failedOn \cup {opus_file}
                  /\ failedAt' = [failedAt EXCEPT ![opus_file] = "convert"]
                  /\ NextFile("pf_check")
    /\ UNCHANGED <<dirs, txt, calls, cmd, files, transcript, processed, skipped, failed,
                   visited, prior, infCalls, returned>>

\* process_files: transcript = transcribe_audio(wav_file), with its default arguments
PfTranscribe(ext) ==
    /\ UNCHANGED <<first, fmtVars>>
    /\ pc = "pf_transcribe"
    /\ LET opus_file == files[idx]
           r == transcribe_audio(txt, dirs, opus_file, "base", TRUE, ext)
       IN /\ txt' = r.txt
          /\ infCalls' = [infCalls EXCEPT ![opus_file] = @ + r.inf]
          /\ returned' = [returned EXCEPT ![opus_file] = Returned(r, ext)]
          /\ transcript' = r.ret
          /\ IF r.ok
             THEN /\ status' = [status EXCEPT ![opus_file] = "Transcribed"]
                  /\ failedOn' = failedOn /\ failedAt' = failedAt
                  /\ pc' = "pf_save" /\ idx' = idx /\ outcome' = outcome
             ELSE /\ status' = [status EXCEPT ![opus_file] = "Failed"]
                  /\ failedOn' = failedOn \cup {opus_file}
                  /\ failedAt' = [failedAt EXCEPT ![opus_file] = r.err]
                  /\ NextFile("pf_check")
    /\ UNCHANGED <<dirs, wav, calls, cmd, files, processed, skipped, failed,
                   visited, prior, convCalls>>

\* process_files: transcript_file.write_text(transcript)
PfSave ==
    /\ UNCHANGED <<first, fmtVars>>
    /\ pc = "pf_save"
    /\ LET opus_file == files[idx]
       IN /\ txt' = [txt EXCEPT ![TRANSCRIBED_DIR][opus_file] = File(write_text(transcript))]
          /\ status' = [status EXCEPT ![opus_file] = "Done"]
    /\ NextFile("pf_check")
    /\ UNCHANGED <<dirs, wav, calls, cmd, files, transcript, processed, skipped, failed,
                   visited, failedOn, prior, convCalls, infCalls, returned, failedAt>>

\* cli.py process <input_dir> <output_dir>, up to its loop; the input directory
\* is the raw directory
processRun(output_dir) ==
    /\ pc = "idle"
    /\ dirs' = dirs \cup {output_dir}
    /\ \E opus_files \in Listings(RawFiles(dirs)) :
          /\ StartRun([NoCmd EXCEPT !.name = "process", !.input_dir = RAW_DIR,
                                    !.input_missing = RAW_DIR \notin dirs,
                                    !.output_dir = output_dir],
                      opus_files, {s \in Stems : wav[output_dir][s] # Absent})
          /\ IF opus_files = <<>>
             THEN pc' = "idle" /\ outcome' = "ok"
             ELSE pc' = "process_loop" /\ outcome' = "none"
    /\ UNCHANGED <<wav, txt, calls, fmtVars>>

\* cli.py process, run once
process(output_dir) ==
    /\ cmd = NoCmd
    /\ processRun(output_dir)
    /\ first' = first

\* cli.py process without its test for an existing wav file: ffmpeg -y runs anyway
ProcessFile_overwrite(ext) ==
    /\ UNCHANGED <<first, fmtVars>>
    /\ pc = "process_loop"
    /\ LET opus_file == files[idx]
           result == ffmpeg(TRUE, ext)
       IN /\ visited' = Append(visited, opus_file)
          /\ IF FALSE
             THEN /\ skipped' = skipped + 1
                  /\ UNCHANGED <<wav, processed, failed, failedOn, failedAt, convCalls>>
             ELSE /\ convCalls' = [convCalls EXCEPT ![opus_file] = @ + 1]
                  /\ wav' = IF result.written = Absent THEN wav
                            ELSE [wav EXCEPT ![cmd.output_dir][opus_file] = result.written]
                  /\ IF result.returncode # 0
                     THEN /\ failed' = failed + 1
                          /\ failedOn' = failedOn \cup {opus_file}
                          /\ failedAt' = [failedAt EXCEPT ![opus_file] = "convert"]
                          /\ UNCHANGED <<processed, skipped>>
                     ELSE /\ processed' = processed + 1
                          /\ UNCHANGED <<failed, failedOn, failedAt, skipped>>
    /\ NextFile("process_loop")
    /\ UNCHANGED <<dirs, txt, calls, cmd, files, transcript, status, prior, infCalls, returned>>

\* cli.py process without the continue of its failure branch: the pass goes on to
\* processed += 1
ProcessFile_no_continue(ext) ==
    /\ UNCHANGED <<first, fmtVars>>
    /\ pc = "process_loop"
    /\ LET opus_file == files[idx]
           result == ffmpeg(TRUE, ext)
       IN /\ visited' = Append(visited, opus_file)
          /\ IF wav[cmd.output_dir][opus_file] # Absent
             THEN /\ skipped' = skipped + 1
                  /\ UNCHANGED <<wav, processed, failed, failedOn, failedAt, convCalls>>
             ELSE /\ convCalls' = [convCalls EXCEPT ![opus_file] = @ + 1]
                  /\ wav' = IF result.written = Absent THEN wav
                            ELSE [wav EXCEPT ![cmd.output_dir][opus_file] = result.written]
                  /\ IF result.returncode # 0
                     THEN /\ failed' = failed + 1
                          /\ failedOn' = failedOn \cup {opus_file}
                          /\ failedAt' = [failedAt EXCEPT ![opus_file] = "convert"]
                          /\ processed' = processed + 1
                          /\ UNCHANGED skipped
                     ELSE /\ processed' = processed + 1
                          /\ UNCHANGED <<failed, failedOn, failedAt, skipped>>
    /\ NextFile("process_loop")
    /\ UNCHANGED <<dirs, txt, calls, cmd, files, transcript, status, prior, infCalls, returned>>

\* cli.py process: one pass of the loop body
ProcessFile(ext) ==
    /\ UNCHANGED <<first, fmtVars>>
    /\ pc = "process_loop"
    /\ LET opus_file == files[idx]
           result == ffmpeg(TRUE, ext)
       IN /\ visited' = Append(visited, opus_file)
          /\ IF wav[cmd.output_dir][opus_file] # Absent
             THEN /\ skipped' = skipped + 1
                  /\ UNCHANGED <<wav, processed, failed, failedOn, failedAt, convCalls>>
             ELSE /\ convCalls' = [convCalls EXCEPT ![opus_file] = @ + 1]
                  /\ wav' = IF result.written = Absent THEN wav
                            ELSE [wav EXCEPT ![cmd.output_dir][opus_file] = result.written]
                  /\ IF result.returncode # 0
                     THEN /\ failed' = failed + 1
                          /\ failedOn' = failedOn \cup {opus_file}
                          /\ failedAt' = [failedAt EXCEPT ![opus_file] = "convert"]
                          /\ UNCHANGED <<processed, skipped>>
                     ELSE /\ processed' = processed + 1
                          /\ UNCHANGED <<failed, failedOn, failedAt, skipped>>
    /\ NextFile("process_loop")
    /\ UNCHANGED <<dirs, txt, calls, cmd, files, transcript, status, prior, infCalls, returned>>

\* cli.py transcribe <input_dir> <output_dir> -m <model> --[no-]timestamps, up to its
\* loop; the output directory is created before the input directory is listed
transcribeRun(input_dir, output_dir, model, timestamps) ==
    /\ pc = "idle"
    /\ dirs' = dirs \cup {output_dir}
    /\ \E wav_files \in Listings(WavFiles(wav, dirs', input_dir)) :
          /\ StartRun([name |-> "transcribe", input_dir |-> input_dir,
                       input_missing |-> input_dir \notin dirs',
                       output_dir |-> output_dir, model |-> model,
                       timestamps |-> timestamps],
                      wav_files, {s \in Stems : txt[output_dir][s] # Absent})
          /\ IF wav_files = <<>>
             THEN pc' = "idle" /\ outcome' = "ok"
             ELSE pc' = "transcribe_loop" /\ outcome' = "none"
    /\ UNCHANGED <<wav, txt, calls, fmtVars>>

\* cli.py transcribe, run once
transcribe(input_dir, output_dir, model, timestamps) ==
    /\ cmd = NoCmd
    /\ transcribeRun(input_dir, output_dir, model, timestamps)
    /\ first' = first

\* cli.py transcribe with the except branch leaving the loop (break for continue)
TranscribeFile_break(ext) ==
    /\ UNCHANGED <<first, fmtVars>>
    /\ pc = "transcribe_loop"
    /\ LET wav_file == files[idx]
           r == transcribe_audio(txt, dirs, wav_file, cmd.model, cmd.timestamps, ext)
       IN /\ visited' = Append(visited, wav_file)
          /\ IF txt[cmd.output_dir][wav_file] # Absent
             THEN /\ skipped' = skipped + 1
                  /\ NextFile("transcribe_loop")
                  /\ UNCHANGED <<txt, processed, failed, failedOn, failedAt, infCalls, returned>>
             ELSE /\ infCalls' = [infCalls EXCEPT ![wav_file] = @ + r.inf]
                  /\ returned' = [returned EXCEPT ![wav_file] = Returned(r, ext)]
                  /\ IF r.ok
                     THEN /\ txt' = [r.txt EXCEPT ![cmd.output_dir][wav_file] =
                                                      File(write_text(r.ret))]
                          /\ processed' = processed + 1
                          /\ NextFile("transcribe_loop")
                          /\ UNCHANGED <<failed, failedOn, failedAt, skipped>>
                     ELSE /\ txt' = r.txt
                          /\ failed' = failed + 1
                          /\ failedOn' = failedOn \cup {wav_file}
                          /\ failedAt' = [failedAt EXCEPT ![wav_file] = r.err]
                          /\ idx' = idx /\ pc' = "idle" /\ outcome' = "ok"
                          /\ UNCHANGED <<processed, skipped>>
    /\ UNCHANGED <<dirs, wav, calls, cmd, files, transcript, status, prior, convCalls>>

\* cli.py transcribe not handing its timestamps option on to transcribe_audio
TranscribeFile_default_mode(ext) ==
    /\ UNCHANGED <<first, fmtVars>>
    /\ pc = "transcribe_loop"
    /\ LET wav_file == files[idx]
           r == transcribe_audio(txt, dirs, wav_file, cmd.model, TRUE, ext)
       IN /\ visited' = Append(visited, wav_file)
          /\ IF txt[cmd.output_dir][wav_file] # Absent
             THEN /\ skipped' = skipped + 1
                  /\ UNCHANGED <<txt, processed, failed, failedOn, failedAt, infCalls, returned>>
             ELSE /\ infCalls' = [infCalls EXCEPT ![wav_file] = @ + r.inf]
                  /\ returned' = [returned EXCEPT ![wav_file] = Returned(r, ext)]
                  /\ IF r.ok
                     THEN /\ txt' = [r.txt EXCEPT ![cmd.output_dir][wav_file] =
                                                      File(write_text(r.ret))]
                          /\ processed' = processed + 1
                          /\ UNCHANGED <<failed, failedOn, failedAt, skipped>>
                     ELSE /\ txt' = r.txt
                          /\ failed' = failed + 1
                          /\ failedOn' = failedOn \cup {wav_file}
                          /\ failedAt' = [failedAt EXCEPT ![wav_file] = r.err]
                          /\ UNCHANGED <<processed, skipped>>
    /\ NextFile("transcribe_loop")
    /\ UNCHANGED <<dirs, wav, calls, cmd, files, transcript, status, prior, convCalls>>

\* cli.py transcribe: one pass of the loop body
TranscribeFile(ext) ==
    /\ UNCHANGED <<first, fmtVars>>
    /\ pc = "transcribe_loop"
    /\ LET wav_file == files[idx]
           r == transcribe_audio(txt, dirs, wav_file, cmd.model, cmd.timestamps, ext)
       IN /\ visited' = Append(visited, wav_file)
          /\ IF txt[cmd.output_dir][wav_file] # Absent
             THEN /\ skipped' = skipped + 1
                  /\ UNCHANGED <<txt, processed, failed, failedOn, failedAt, infCalls, returned>>
             ELSE /\ infCalls' = [infCalls EXCEPT ![wav_file] = @ + r.inf]
                  /\ returned' = [returned EXCEPT ![wav_file] = Returned(r, ext)]
                  /\ IF r.ok
                     THEN /\ txt' = [r.txt EXCEPT ![cmd.output_dir][wav_file] =
                                                      File(write_text(r.ret))]
                          /\ processed' = processed + 1
                          /\ UNCHANGED <<failed, failedOn, failedAt, skipped>>
                     ELSE /\ txt' = r.txt
                          /\ failed' = failed + 1
                          /\ failedOn' = failedOn \cup {wav_file}
                          /\ failedAt' = [failedAt EXCEPT ![wav_file] = r.err]
                          /\ UNCHANGED <<processed, skipped>>
    /\ NextFile("transcribe_loop")
    /\ UNCHANGED <<dirs, wav, calls, cmd, files, transcript, status, prior, convCalls>>

\* ------------------------------------------------------ specifications
\* direct calls of the two converters, from an empty processed directory
InitConvert ==
    /\ dirs \in {{RAW_DIR, PROCESSED_DIR}, {RAW_DIR, PROCESSED_DIR, OUT_DIR}}
    /\ wav = [d \in WavDirs |-> NoFiles]
    /\ txt = [d \in TxtDirs |-> NoFiles]
    /\ InitControl
    /\ segments = <<>>

NextConvert ==
    \/ \E stem \in Stems, ext \in FfmpegOutcomes : ConvertOpusToWav(stem, ext)
    \/ \E stem \in Stems, output_dir \in WavDirs, ext \in FfmpegOutcomes :
           ExtractAudioFromMp4(stem, output_dir, ext)
    \/ \E source \in WavDirs, target \in WavDirs : mv("wav", source, target)

SpecConvert == InitConvert /\ [][NextConvert]_vars

\* direct calls of transcribe_audio; stem 1 may have a transcript from earlier
InitTranscribeAudio ==
    /\ dirs \in {{RAW_DIR, PROCESSED_DIR}, {RAW_DIR, PROCESSED_DIR, TRANSCRIBED_DIR}}
    /\ wav = [d \in WavDirs |-> NoFiles]
    /\ txt \in {[d \in TxtDirs |-> NoFiles]} \cup
               (IF TRANSCRIBED_DIR \in dirs
                THEN {[d \in TxtDirs |-> IF d = TRANSCRIBED_DIR
                                         THEN [NoFiles EXCEPT ![1] = File(PriorText)]
                                         ELSE NoFiles]}
                ELSE {})
    /\ InitControl
    /\ segments = <<>>

NextTranscribeAudio ==
    \/ \E stem \in Stems, model_str \in Models, timestamps \in BOOLEAN,
          ext \in InferenceOutcomes : TranscribeAudio(stem, model_str, timestamps, ext)
    \/ \E source \in TxtDirs, target \in TxtDirs : mv("txt", source, target)

SpecTranscribeAudio == InitTranscribeAudio /\ [][NextTranscribeAudio]_vars

\* one batch command, from directories that earlier runs may have filled: each
\* stem has only its source (stage 0), also its wav (1), or also its transcript (2)
InitBatch ==
    /\ dirs \in {{RAW_DIR, PROCESSED_DIR, TRANSCRIBED_DIR}, {PROCESSED_DIR, TRANSCRIBED_DIR},
                 {RAW_DIR, PROCESSED_DIR}}
    /\ \E stage \in [Stems -> 0..2] :
          /\ TRANSCRIBED_DIR \notin dirs => \A s \in Stems : stage[s] < 2
          /\ wav = [d \in WavDirs |->
                       IF d = PROCESSED_DIR
                       THEN [s \in Stems |-> IF stage[s] >= 1 THEN File("full") ELSE Absent]
                       ELSE NoFiles]
          /\ txt = [d \in TxtDirs |->
                       IF d = TRANSCRIBED_DIR
                       THEN [s \in Stems |-> IF stage[s] = 2 THEN File(PriorText) ELSE Absent]
                       ELSE NoFiles]
    /\ InitControl
    /\ segments = <<>>

NextBatch ==
    \/ Main
    \/ PfCheck
    \/ \E ext \in FfmpegOutcomes : PfConvert(ext)
    \/ \E ext \in InferenceOutcomes : PfTranscribe(ext)
    \/ PfSave
    \/ process(PROCESSED_DIR)
    \/ \E ext \in FfmpegOutcomes : ProcessFile(ext)
    \/ \E input_dir \in WavDirs, output_dir \in TxtDirs, model \in Models,
          timestamps \in BOOLEAN : transcribe(input_dir, output_dir, model, timestamps)
    \/ \E ext \in InferenceOutcomes : TranscribeFile(ext)

SpecBatch == InitBatch /\ [][NextBatch]_vars

\* the same, every call of ffmpeg and of whisper returning: the interpreter
\* runs the one thread of the command on, so a step that can be taken is taken
SpecBatchFair == SpecBatch /\ WF_vars(NextBatch)

\* the command that has just returned is run again, at once, with the same
\* arguments; the directories are as the first run left them and are listed
\* in the same order.  first keeps what the first run left
Rerun ==
    /\ pc = "idle" /\ cmd # NoCmd /\ outcome = "ok" /\ first = NoRun
    /\ files' = files
    /\ first' = <<[failedOn |-> failedOn, failedAt |-> failedAt, infCalls |-> infCalls,
                   dirs |-> dirs, wav |-> wav, txt |-> txt]>>
    /\ CASE cmd.name = "main" -> MainRun
         [] cmd.name = "process" -> processRun(cmd.output_dir)
         [] cmd.name = "transcribe" ->
                transcribeRun(cmd.input_dir, cmd.output_dir, cmd.model, cmd.timestamps)

\* one batch command and a second run of it
NextRerun ==
    \/ Main
    \/ PfCheck
    \/ \E ext \in FfmpegOutcomes : PfConvert(ext)
    \/ \E ext \in InferenceOutcomes : PfTranscribe(ext)
    \/ PfSave
    \/ process(PROCESSED_DIR)
    \/ \E ext \in FfmpegOutcomes : ProcessFile(ext)
    \/ \E input_dir \in WavDirs, output_dir \in TxtDirs, model \in Models,
          timestamps \in BOOLEAN : transcribe(input_dir, output_dir, model, timestamps)
    \/ \E ext \in InferenceOutcomes : TranscribeFile(ext)
    \/ Rerun

\* the directories before the first run: the transcript directory may be
\* missing; stems 1 and 2 are at any stage (0 source only, 1 with its wav, 2 with
\* its transcript too), the stems after them are as far as the directories allow
InitRerun ==
    /\ dirs \in {{RAW_DIR, PROCESSED_DIR, TRANSCRIBED_DIR}, {RAW_DIR, PROCESSED_DIR}}
    /\ \E one \in 0..2, two \in 0..2 :
          LET last == IF TRANSCRIBED_DIR \in dirs THEN 2 ELSE 1
              stage == [s \in Stems |-> IF s = 1 THEN one ELSE IF s = 2 THEN two ELSE last]
          IN /\ one <= last /\ two <= last
             /\ wav = [d \in WavDirs |->
                          IF d = PROCESSED_DIR
                          THEN [s \in Stems |-> IF stage[s] >= 1 THEN File("full") ELSE Absent]
                          ELSE NoFiles]
             /\ txt = [d \in TxtDirs |->
                          IF d = TRANSCRIBED_DIR
                          THEN [s \in Stems |-> IF stage[s] = 2 THEN File(PriorText) ELSE Absent]
                          ELSE NoFiles]
    /\ InitControl
    /\ segments = <<>>

SpecRerun == InitRerun /\ [][NextRerun]_vars

\* format_transcript on a segment list, then the clean command on the text
\* written to a file.  The times meet the ends of the second, minute and hour
\* fields and go past 99 hours; the texts are empty, padded, broken over two
\* lines, one that quotes a timestamp bracket, and one with a bracket inside a
\* bracket
SegmentTimes == {<<0, 999>>, <<1000, 59999>>, <<60000, 3599999>>, <<3725500, 3728160>>,
                 <<359999999, 360000000>>}
StampText == <<"a", " ", "[">> \o format_timestamp(0) \o <<" ", "-", ">", " ">>
             \o format_timestamp(8160) \o <<"]", "b">>
\* a bracket with a second bracket set into it after its 20th character
NestedText == LET bracket == <<"[">> \o format_timestamp(0) \o <<" ", "-", ">", " ">>
                             \o format_timestamp(8160) \o <<"]">>
              IN SubSeq(bracket, 1, 20) \o bracket \o SubSeq(bracket, 21, Len(bracket))
SegmentTexts == {<<>>, <<" ", "h", "i", " ">>, <<"a", "\n", "b">>, StampText, NestedText}
SegmentChoices == {[start |-> t[1], end |-> t[2], text |-> x] :
                       t \in SegmentTimes, x \in SegmentTexts}
SegmentLists == UNION {[1..n -> SegmentChoices] : n \in 0..MaxSegs}

InitFormat ==
    /\ dirs = {RAW_DIR, PROCESSED_DIR, TRANSCRIBED_DIR}
    /\ wav = [d \in WavDirs |-> NoFiles]
    /\ txt = [d \in TxtDirs |-> NoFiles]
    /\ InitControl
    /\ segments \in SegmentLists

\* formatted_transcript = format_transcript(result["segments"], timestamps)
FormatTranscript(timestamps) ==
    /\ formatted = NotYet
    /\ formatted' = <<[timestamps |-> timestamps,
                       text |-> format_transcript(segments, timestamps)]>>
    /\ UNCHANGED <<fsVars, calls, runVars, segments, cleaned>>

\* cli.py clean <input_file>, the input file holding the formatted text
RemoveTimestamps ==
    /\ formatted # NotYet /\ cleaned = NotYet
    /\ cleaned' = <<remove_timestamps(write_text(formatted[1].text))>>
    /\ UNCHANGED <<fsVars, calls, runVars, segments, formatted>>

\* cli.py clean <input_file> once more, the input file being the output file of
\* the run before
RemoveTimestampsAgain ==
    /\ Len(cleaned) = 1
    /\ cleaned' = Append(cleaned, remove_timestamps(cleaned[1].outfile))
    /\ UNCHANGED <<fsVars, calls, runVars, segments, formatted>>

NextFormat ==
    \/ \E timestamps \in BOOLEAN : FormatTranscript(timestamps)
    \/ RemoveTimestamps
    \/ RemoveTimestampsAgain

SpecFormat == InitFormat /\ [][NextFormat]_vars

\* ---------------------------------------------------- the calls' history
\* the file system right after call i returned or raised
WavAfter(i) == IF i < Len(calls) THEN calls[i + 1].wavBefore ELSE wav
TxtAfter(i) == IF i < Len(calls) THEN calls[i + 1].txtBefore ELSE txt

ConvertFns == {"convert_opus_to_wav", "extract_audio_from_mp4"}

\* calls i and i+1 are the same converter on the same source, nothing between them
ConvertTwice(i) ==
    /\ i + 1 <= Len(calls)
    /\ calls[i].fn \in ConvertFns
    /\ calls[i + 1].fn = calls[i].fn
    /\ calls[i + 1].stem = calls[i].stem
    /\ calls[i + 1].dir = calls[i].dir

\* calls i and i+1 are transcribe_audio on the same stem, nothing between them
TranscribeTwice(i) ==
    /\ i + 1 <= Len(calls)
    /\ calls[i].fn = "transcribe_audio"
    /\ calls[i + 1].fn = "transcribe_audio"
    /\ calls[i + 1].stem = calls[i].stem

C2_NoPartialArtifact ==
    \A i \in 1..Len(calls) :
        (calls[i].fn \in ConvertFns /\ calls[i].conv = 1) =>
            IF calls[i].ok
            THEN WavAfter(i) = [calls[i].wavBefore EXCEPT
                                   ![calls[i].dir][calls[i].stem] = WavAfter(i)[calls[i].dir][calls[i].stem]]
                 /\ WavAfter(i)[calls[i].dir][calls[i].stem] # Absent
            ELSE /\ WavAfter(i)[calls[i].dir][calls[i].stem] = Absent
                 /\ WavAfter(i) = calls[i].wavBefore

\* ------------------------------------------------------------------ C3
\* C3: two calls of transcribe_audio on the same stem that both return give
\* the same text, and model.transcribe is called at most once over both.
C3_TranscribeIdempotent ==
    \A i \in 1..Len(calls) :
        (TranscribeTwice(i) /\ calls[i].ok /\ calls[i + 1].ok) =>
            /\ calls[i + 1].ret = calls[i].ret
            /\ calls[i].inf + calls[i + 1].inf <= 1

\* ------------------------------------------------------------------ C4
\* C4: a call of transcribe_audio for a stem whose transcript exists returns
\* the transcript's contents verbatim, does not call the model and leaves every
\* transcript as it was, whatever timestamps flag and model size it is given.
C4_ExistingTranscriptVerbatim ==
    \A i \in 1..Len(calls) :
        (calls[i].fn = "transcribe_audio" /\ calls[i].existed) =>
            /\ calls[i].ok
            /\ calls[i].ret = calls[i].txtBefore[TRANSCRIBED_DIR][calls[i].stem][1]
            /\ calls[i].inf = 0
            /\ TxtAfter(i) = calls[i].txtBefore

\* ------------------------------------------------------------------ C8
\* C8: a call of transcribe_audio with a model size outside the enumeration
\* raises a configuration error and returns no transcript, whether or not the
\* stem's transcript exists.
C8_UnknownModelRejected ==
    \A i \in 1..Len(calls) :
        (calls[i].fn = "transcribe_audio" /\ calls[i].model \notin WhisperModels) =>
            ~calls[i].ok /\ calls[i].err = "load_model"

\* ------------------------------------------------------------------ C9
\* C9: when model.transcribe raises, transcribe_audio raises, returns nothing
\* and leaves every transcript file as it was before the call: the stem has a
\* transcript afterwards only if it had one before.
C9_InferenceFailureWritesNothing ==
    \A i \in 1..Len(calls) :
        (calls[i].fn = "transcribe_audio" /\ calls[i].inf = 1 /\ calls[i].err = "transcribe") =>
            /\ ~calls[i].ok
            /\ calls[i].ret = <<>>
            /\ TxtAfter(i) = calls[i].txtBefore
            /\ TxtAfter(i)[TRANSCRIBED_DIR][calls[i].stem] = Absent

\* model.transcribe raised in a call, and a later call for the stem ran the model again
C9_Witness ==
    \E i \in 1..Len(calls) :
        /\ TranscribeTwice(i)
        /\ calls[i].err = "transcribe"
        /\ calls[i + 1].inf = 1 /\ calls[i + 1].ok

\* ------------------------------------------------------ a batch run's end
\* the command returned (it did not raise)
Finished == pc = "idle" /\ cmd.name # "none" /\ outcome = "ok"

\* the file a command writes for a stem
OutputArtifact(stem) ==
    IF cmd.name = "process" THEN wav[cmd.output_dir][stem] ELSE txt[cmd.output_dir][stem]

\* ------------------------------------------------------------------ C5
\* C5: when a batch command has returned, its loop took every discovered file,
\* whatever failed on other files; every file that had no output artifact before
\* the run and on which nothing failed has its output artifact; in process and
\* transcribe, failed counts the files on which a step failed, processed the
\* other files without a prior artifact, skipped the files with one.
C5_FailureIsolation ==
    Finished =>
        /\ Range(visited) = Range(files)
        /\ \A f \in Range(files) \ (prior \cup failedOn) : OutputArtifact(f) # Absent
        /\ cmd.name \in {"process", "transcribe"} =>
              /\ failed = Cardinality(failedOn)
              /\ processed = Cardinality(Range(files) \ (prior \cup failedOn))
              /\ skipped = Cardinality(Range(files) \cap prior)

\* transcribe over three files, the model raising on the second only
C5_Witness ==
    /\ Finished /\ cmd.name = "transcribe" /\ cmd.model \in WhisperModels
    /\ Len(files) = 3
    /\ failedOn = {files[2]} /\ infCalls[files[2]] = 1
    /\ processed = 2 /\ failed = 1 /\ skipped = 0
    /\ OutputArtifact(files[1]) # Absent /\ OutputArtifact(files[3]) # Absent
    /\ OutputArtifact(files[2]) = Absent

\* ------------------------------------------------------------------ C6
\* C6: whatever order the directory listing has, the loop takes the files in
\* lexicographic order of their paths.
C6_LexicographicOrder ==
    \A i, j \in 1..Len(visited) : i < j => visited[i] < visited[j]

\* ------------------------------------------------------------------ C7
\* C7: a batch command whose input directory does not exist ends in an error,
\* having taken no file and invoked neither ffmpeg nor the model.
C7_MissingInputDirIsError ==
    (pc = "idle" /\ cmd.name # "none" /\ cmd.input_missing) =>
        /\ outcome = "error"
        /\ visited = <<>>
        /\ \A s \in Stems : convCalls[s] = 0 /\ infCalls[s] = 0

\* ----------------------------------------------------------------- C10
\* the moves of a file that the state machine of process_files allows
PfMoves == {<<"Discovered", "Converted">>, <<"Converted", "Transcribed">>,
            <<"Transcribed", "Done">>, <<"Discovered", "Skipped">>,
            <<"Discovered", "Failed">>, <<"Converted", "Failed">>,
            <<"Transcribed", "Failed">>}

C10_Step ==
    (cmd.name = "main" /\ cmd' = cmd) =>
        \A f \in Stems :
            /\ status'[f] # status[f] => <<status[f], status'[f]>> \in PfMoves
            /\ (status'[f] # status[f] /\ status'[f] = "Skipped") =>
                   txt[TRANSCRIBED_DIR][f] # Absent
            /\ (status'[f] # status[f] /\ status'[f] = "Failed") =>
                   f \in failedOn' \ failedOn
            /\ (status'[f] # status[f] /\ status'[f] = "Converted") =>
                   wav'[PROCESSED_DIR][f] # Absent
            /\ (status'[f] # status[f] /\ status'[f] \in {"Transcribed", "Done"}) =>
                   txt'[TRANSCRIBED_DIR][f] # Absent
            /\ convCalls'[f] > convCalls[f] => status[f] = "Discovered"
            /\ infCalls'[f] > infCalls[f] =>
                   status[f] = "Converted" /\ wav[PROCESSED_DIR][f] # Absent
            /\ (f \in Range(visited) /\ visited' # visited) =>
                   visited'[Len(visited')] # f

\* C10: in a run of process_files a file moves only along Discovered ->
\* Converted -> Transcribed -> Done; it becomes Skipped only from Discovered and
\* only when its transcript exists; it becomes Failed only in a step that
\* failed on it; Done, Skipped and Failed are left by no step and no file is
\* taken twice; model.transcribe is called for a file only when the file is
\* Converted and its wav exists.
C10_FileStateMachine == [][C10_Step]_vars

\* a run of process_files that ended with a file Done, one Skipped and one Failed
C10_Witness ==
    /\ Finished /\ cmd.name = "main"
    /\ \E f, g, h \in Stems :
          status[f] = "Done" /\ status[g] = "Skipped" /\ status[h] = "Failed"
          /\ infCalls[h] = 1

\* ----------------------------------------------------------------- C11
\* a step other than the mv command leaves every existing wav file as it is
C11_Step ==
    (Len(calls') > Len(calls) => calls'[Len(calls')].fn # "mv") =>
        \A d \in WavDirs, s \in Stems : wav[d][s] # Absent => wav'[d][s] = wav[d][s]

\* C11: once <processedDir>/<stem>.wav exists, no converter call and no step of
\* a batch run modifies, replaces or deletes it: its content stays what it was
\* when it was created.
C11_AudioArtifactNeverMutated == [][C11_Step]_vars

\* a run of process_files took a file whose wav existed before the run and
\* transcribed it without running ffmpeg for it
C11_Witness ==
    /\ cmd.name = "main"
    /\ \E f \in Stems :
          /\ status[f] = "Done" /\ convCalls[f] = 0
          /\ wav[PROCESSED_DIR][f] = File("full")

\* ------------------------------------------------- formatting and cleaning
\* whitespace normalization: every run of whitespace is one space, none at the ends
Normalize(text) == join(<<" ">>, split(text))

\* the clean command has run on the timestamped text of the segment list
CleanedTimestamped ==
    /\ formatted # NotYet /\ formatted[1].timestamps
    /\ cleaned # NotYet

NonEmptyTexts == segments # <<>> /\ \A i \in 1..Len(segments) : segments[i].text # <<>>

\* every time of the list is below 100 hours, no text holds a timestamp bracket
HoursBelow100 ==
    \A i \in 1..Len(segments) : segments[i].start < 360000000 /\ segments[i].end < 360000000
NoBracketInText == \A i \in 1..Len(segments) : ~re_search(segments[i].text)

\* ----------------------------------------------------------------- C12
\* C12 as stated: for a non-empty segment list whose texts are all non-empty,
\* with any times and any texts, cleaning the timestamped text gives the plain
\* text up to whitespace normalization.
C12_AsStated ==
    (CleanedTimestamped /\ NonEmptyTexts) =>
        Normalize(cleaned[1].outfile) = Normalize(format_transcript(segments, FALSE))

\* C12, amended: for a non-empty segment list whose texts are all non-empty,
\* whose times are all below 100 hours and whose texts hold no timestamp
\* bracket, cleaning the timestamped text gives the plain text up to whitespace
\* normalization.
C12_RoundTrip ==
    (CleanedTimestamped /\ NonEmptyTexts /\ HoursBelow100 /\ NoBracketInText) =>
        Normalize(cleaned[1].outfile) = Normalize(format_transcript(segments, FALSE))

\* two segments with text, one of them broken over two lines, were formatted
\* with timestamps and cleaned
C12_Witness ==
    /\ CleanedTimestamped /\ NonEmptyTexts /\ HoursBelow100 /\ NoBracketInText
    /\ Len(segments) = 2
    /\ \E i \in 1..2 : segments[i].text = <<"a", "\n", "b">>
    /\ cleaned[1].lines_with_timestamps = 2

\* ----------------------------------------------------------------- C13
\* the number a string of decimal digits writes
RECURSIVE Number(_)
Number(d) == IF d = <<>> THEN 0
             ELSE 10 * Number(SubSeq(d, 1, Len(d) - 1))
                  + (CHOOSE n \in 0..9 : DigitChars[n + 1] = d[Len(d)])

AllDigits(d) == \A i \in 1..Len(d) : IsDigit(d[i])

\* r is HH:MM:SS.mmm for the time of ms milliseconds: an hour field of two
\* digits or as many as the hours need, then fields of 2, 2 and 3 digits
IsRendering(r, ms) ==
    LET n == Len(r)
        hh == SubSeq(r, 1, n - 10)
        mm == SubSeq(r, n - 8, n - 7)
        ss == SubSeq(r, n - 5, n - 4)
        mmm == SubSeq(r, n - 2, n)
    IN /\ n >= 12
       /\ r[n - 9] = ":" /\ r[n - 6] = ":" /\ r[n - 3] = "."
       /\ AllDigits(hh) /\ AllDigits(mm) /\ AllDigits(ss) /\ AllDigits(mmm)
       /\ Number(hh) = ms \div 3600000
       /\ Len(hh) > 2 => hh[1] # "0"
       /\ Number(mm) = (ms % 3600000) \div 60000 /\ Number(mm) \in 0..59
       /\ Number(ss) = (ms % 60000) \div 1000 /\ Number(ss) \in 0..59
       /\ Number(mmm) = ms % 1000

\* the text of the segment list's first line up to the end of its bracket
FirstBracket == SubSeq(formatted[1].text, 1, Len(format_timestamp(segments[1].start))
                                             + Len(format_timestamp(segments[1].end)) + 6)

\* C13: for every non-negative time in whole milliseconds format_timestamp
\* renders HH:MM:SS.mmm with hours = floor(t/3600) in at least 2 digits,
\* minutes = floor((t mod 3600)/60) in 2 digits within 00..59, whole seconds in
\* 2 digits within 00..59 and milliseconds in 3 digits; 3725.5 s renders as
\* 01:02:05.500 and 3728.16 s as 01:02:08.160.  Checked on the times of the
\* segments that format_transcript was given.
C13_TimestampRendering ==
    (formatted # NotYet /\ formatted[1].timestamps /\ segments # <<>>) =>
        /\ \A i \in 1..Len(segments) :
              /\ IsRendering(format_timestamp(segments[i].start), segments[i].start)
              /\ IsRendering(format_timestamp(segments[i].end), segments[i].end)
        /\ FirstBracket = <<"[">> \o format_timestamp(segments[1].start)
                          \o <<" ", "-", ">", " ">>
                          \o format_timestamp(segments[1].end) \o <<"]">>
        /\ (segments[1].start = 3725500 /\ segments[1].end = 3728160) =>
              FirstBracket = <<"[", "0", "1", ":", "0", "2", ":", "0", "5", ".", "5", "0", "0",
                               " ", "-", ">", " ",
                               "0", "1", ":", "0", "2", ":", "0", "8", ".", "1", "6", "0", "]">>

\* the text of a list that begins at 3725.5 s and holds a time of 100 hours
C13_Witness ==
    /\ formatted # NotYet /\ formatted[1].timestamps
    /\ Len(segments) = 2
    /\ segments[1].start = 3725500 /\ segments[1].end = 3728160
    /\ segments[2].end = 360000000

\* ----------------------------------------------------------------- C14
\* the bracket [start -> end] of a segment
Bracket(segment) ==
    <<"[">> \o format_timestamp(segment.start) \o <<" ", "-", ">", " ">>
    \o format_timestamp(segment.end) \o <<"]">>

\* C14: in timestamped mode format_transcript emits exactly one line per
\* segment, newline-terminated and in input order, made of the segment's
\* bracket, a space and the segment's trimmed text; an empty text still gives
\* its bracket line, so there are as many lines as segments.
C14_OneLinePerSegment ==
    (formatted # NotYet /\ formatted[1].timestamps) =>
        LET lines == Lines(formatted[1].text)
        IN /\ Len(lines) = Len(segments)
           /\ \A k \in 1..Len(lines) :
                 lines[k] = Bracket(segments[k]) \o <<" ">> \o strip(segments[k].text)
                            \o <<"\n">>

\* ----------------------------------------------------------------- C15
\* line without the characters that lie in a match of the bracket pattern
WithoutBrackets(line) ==
    LET starts == Matches(line)
        InMatch(k) == \E i \in starts : i <= k /\ k < i + Len(timestamp_pattern)
        Outside(k) == ~InMatch(k)
        kept == SelectSeq([k \in 1..Len(line) |-> k], Outside)
    IN [k \in 1..Len(kept) |-> line[kept[k]]]

\* the lines of a list one after the other, each ended by "\n", empty ones left out
RECURSIVE WrittenLines(_)
WrittenLines(lines) ==
    IF lines = <<>> THEN <<>>
    ELSE (IF Head(lines) = <<>> THEN <<>> ELSE Head(lines) \o <<"\n">>)
         \o WrittenLines(Tail(lines))

\* C15: the clean command takes from every input line every occurrence of the
\* bracket pattern, wherever it is in the line, and trims what is left; it
\* writes that as one line if it is not empty and drops it otherwise, in the
\* order of the input; total lines read = lines written + lines dropped.
C15_CleanPerLine ==
    cleaned # NotYet =>
        LET input == readlines(write_text(formatted[1].text))
            kept == [k \in 1..Len(input) |-> strip(WithoutBrackets(input[k]))]
            dropped == {k \in 1..Len(input) : kept[k] = <<>>}
        IN /\ cleaned[1].outfile = WrittenLines(kept)
           /\ cleaned[1].total_lines = Len(input)
           /\ cleaned[1].lines_removed = Cardinality(dropped)
           /\ cleaned[1].total_lines = Len(Lines(cleaned[1].outfile)) + cleaned[1].lines_removed
           /\ cleaned[1].lines_with_timestamps =
                  Cardinality({k \in 1..Len(input) : re_search(input[k])})

\* clean ran on a text with a line that holds two brackets, one of them after
\* other text, and a line that holds nothing but its bracket
C15_Witness ==
    /\ cleaned # NotYet /\ formatted[1].timestamps
    /\ Len(segments) = 2
    /\ segments[1].text = StampText /\ segments[2].text = <<>>
    /\ cleaned[1].lines_removed = 1 /\ cleaned[1].total_lines = 2
    /\ cleaned[1].outfile = <<"a", " ", "b", "\n">>

\* ----------------------------------------------------------------- C16
\* in a run of process_files, a step leaves alone the wav and the transcript of
\* every stem whose transcript existed when the run began, and no service has
\* run for such a stem; once the loop has taken it, it is Skipped
C16_Step ==
    cmd'.name = "main" =>
        \A f \in prior' :
            /\ wav'[PROCESSED_DIR][f] = wav[PROCESSED_DIR][f]
            /\ txt'[TRANSCRIBED_DIR][f] = txt[TRANSCRIBED_DIR][f]
            /\ convCalls'[f] = 0 /\ infCalls'[f] = 0
            /\ status'[f] \in {"none", "Discovered", "Skipped"}
            /\ f \in Range(visited') => status'[f] = "Skipped"

\* C16: process_files skips a file whose transcript <transcribedDir>/<stem>.txt
\* exists: neither ffmpeg nor model.transcribe is invoked for it, and no file
\* of that stem in processedDir or transcribedDir is created or changed.
C16_ExistingTranscriptSkipped == [][C16_Step]_vars

\* a run of process_files ended, having skipped a file that had its transcript
\* and having converted and transcribed another
C16_Witness ==
    /\ Finished /\ cmd.name = "main"
    /\ \E f \in prior, g \in Stems :
          /\ status[f] = "Skipped" /\ txt[TRANSCRIBED_DIR][f] = File(PriorText)
          /\ status[g] = "Done" /\ convCalls[g] = 1 /\ infCalls[g] = 1

\* ----------------------------------------------------------------- C17
\* the command has ended, by returning or by raising
Terminated == pc = "idle" /\ cmd.name # "none"

\* where a file of a run that returned has ended
FinalClass(f) ==
    IF f \in failedOn THEN "Failed" ELSE IF f \in prior THEN "Skipped" ELSE "Done"

\* no file is taken twice and no service runs twice for a file; a run that
\* returned has taken every file it found, once, and left it Done, Skipped or
\* Failed
C17_Safety ==
    /\ Len(visited) <= Len(files)
    /\ \A i \in 1..Len(visited) : visited[i] = files[i]
    /\ \A f \in Stems : convCalls[f] <= 1 /\ infCalls[f] <= 1
    /\ Finished =>
          /\ visited = files
          /\ \A f \in Range(files) :
                /\ cmd.name = "main" =>
                      status[f] \in {"Done", "Skipped", "Failed"} /\ status[f] = FinalClass(f)
                /\ FinalClass(f) = "Done" => OutputArtifact(f) # Absent
          /\ cmd.name # "main" =>
                /\ failed = Cardinality({f \in Range(files) : FinalClass(f) = "Failed"})
                /\ skipped = Cardinality({f \in Range(files) : FinalClass(f) = "Skipped"})
                /\ processed = Cardinality({f \in Range(files) : FinalClass(f) = "Done"})

\* C17: if every call of ffmpeg and of whisper returns, a batch run over a
\* finite file list ends; it takes each file it found exactly once, without
\* retry, and leaves each in exactly one of Done, Skipped and Failed.
C17_Terminates == []C17_Safety /\ <>[]Terminated

\* a run over three files ended with one of them Done, one Skipped, one Failed
C17_Witness ==
    /\ Finished /\ Len(files) = 3
    /\ \E f, g, h \in Range(files) :
          FinalClass(f) = "Done" /\ FinalClass(g) = "Skipped" /\ FinalClass(h) = "Failed"

\* ----------------------------------------------------------------- C18
BatchCommands == {"process", "transcribe"}

\* the counters add up to the number of files the loop has taken, and to the
\* number of files found when the command has returned
C18_Sum ==
    cmd.name \in BatchCommands =>
        /\ processed + skipped + failed = Len(visited)
        /\ Finished => processed + skipped + failed = Len(files)

\* a pass of the loop takes one file and adds one to exactly one counter
C18_Step ==
    (cmd.name \in BatchCommands /\ cmd' = cmd) =>
        IF visited' = visited
        THEN <<processed', skipped', failed'>> = <<processed, skipped, failed>>
        ELSE /\ Len(visited') = Len(visited) + 1
             /\ <<processed', skipped', failed'>> \in
                    {<<processed + 1, skipped, failed>>, <<processed, skipped + 1, failed>>,
                     <<processed, skipped, failed + 1>>}

\* C18: in process and transcribe, at every point of the loop processed +
\* skipped + failed is the number of files already visited, every visited file
\* added one to exactly one counter, and at the end the sum is the number of
\* files found.
C18_CountersAddUp == []C18_Sum /\ [][C18_Step]_vars

\* a run of transcribe ended with each counter above zero
C18_Witness ==
    /\ Finished /\ cmd.name = "transcribe"
    /\ processed = 1 /\ skipped = 1 /\ failed = 1

\* ----------------------------------------------------------------- C19
\* the files a run of transcribe has counted as processed so far
CountedProcessed == {f \in Range(visited) : f \notin prior /\ f \notin failedOn}

\* C19 as stated: in transcribe, for any output directory and any content of
\* transcribedDir, model.transcribe was invoked exactly once in this run for
\* every file counted as processed, and <output_dir>/<stem>.txt is the
\* formatting, in the mode asked for, of the segments it returned.
C19_AsStated ==
    cmd.name = "transcribe" =>
        \A f \in CountedProcessed :
            /\ infCalls[f] = 1
            /\ returned[f] # NoResult
            /\ txt[cmd.output_dir][f] = File(format_transcript(returned[f][1], cmd.timestamps))

\* a pass of the loop of transcribe that counts its file as processed
C19_Step ==
    (cmd.name = "transcribe" /\ cmd' = cmd /\ processed' = processed + 1) =>
        LET f == files[idx]
        IN IF txt[TRANSCRIBED_DIR][f] = Absent
           THEN /\ infCalls'[f] = 1
                /\ returned'[f] # NoResult
                /\ txt'[cmd.output_dir][f] =
                       File(format_transcript(returned'[f][1], cmd.timestamps))
           ELSE /\ infCalls'[f] = 0
                /\ returned'[f] = NoResult
                /\ txt'[cmd.output_dir][f] = File(read_text(txt[TRANSCRIBED_DIR][f][1]))
                /\ txt'[TRANSCRIBED_DIR][f] = txt[TRANSCRIBED_DIR][f]

\* C19, amended: a file counted as processed that had no transcript in
\* transcribedDir had model.transcribe invoked exactly once in this run, and
\* <output_dir>/<stem>.txt is the formatting, in the mode asked for, of the
\* segments returned; a file counted as processed that had a transcript in
\* transcribedDir had no inference, and <output_dir>/<stem>.txt is that
\* transcript as read in text mode, whatever mode and model were asked for.
C19_ProcessedFromInferenceOrCache == [][C19_Step]_vars

\* a run of transcribe into another directory counted two files as processed,
\* one by inference and one from the transcript kept in transcribedDir
C19_Witness ==
    /\ Finished /\ cmd.name = "transcribe" /\ cmd.output_dir = OUT_DIR
    /\ ~cmd.timestamps
    /\ \E f, g \in CountedProcessed :
          /\ infCalls[f] = 1 /\ returned[f] = <<SegsHi>>
          /\ infCalls[g] = 0 /\ txt[OUT_DIR][g] = File(read_text(PriorText))

\* ----------------------------------------------------------------- C20
SecondRun == first # NoRun

\* model.transcribe was invoked for f in the first run and again in the second
InferredAgain(f) == first[1].infCalls[f] >= 1 /\ infCalls[f] >= 1

\* the second run of a command whose first run had no failure invokes no
\* service, leaves every directory and file as the first run left it, and
\* skips every file
C20_CleanRerun ==
    (SecondRun /\ first[1].failedOn = {}) =>
        /\ \A f \in Stems : convCalls[f] = 0 /\ infCalls[f] = 0
        /\ dirs = first[1].dirs /\ wav = first[1].wav /\ txt = first[1].txt
        /\ processed = 0 /\ failed = 0 /\ failedOn = {}
        /\ skipped = (IF cmd.name \in BatchCommands THEN Len(visited) ELSE 0)
        /\ \A f \in Range(visited) : cmd.name = "main" => status[f] = "Skipped"
        /\ Finished => visited = files

\* C20 as stated: after a run with failed = 0, an immediate second run over the
\* unchanged directories invokes no service, creates or changes no file and
\* skips every file; the files that have inference attempted again in the
\* second run are those, and only those, whose inference failed in the first.
C20_AsStated ==
    /\ C20_CleanRerun
    /\ (SecondRun /\ Finished) =>
          \A f \in Stems : InferredAgain(f) <=> first[1].failedAt[f] = "transcribe"

\* C20, amended: the first part as stated; in the second run inference is
\* attempted only for files that failed in the first run, and the files that
\* have it attempted again are those, and only those, for which
\* transcribe_audio raised in the first run after model.transcribe was called:
\* because model.transcribe raised, or because the transcript could not be
\* written.
C20_Rerun ==
    /\ C20_CleanRerun
    /\ SecondRun => \A f \in Stems : infCalls[f] >= 1 => f \in first[1].failedOn
    /\ (SecondRun /\ Finished) =>
          \A f \in Stems :
              InferredAgain(f) <=> first[1].failedAt[f] \in {"transcribe", "write_text"}

\* the second run has ended: it transcribed a file whose inference failed in
\* the first run and skipped a file the first run transcribed
C20_Witness ==
    /\ SecondRun /\ Finished
    /\ \E f, g \in Range(files) :
          /\ first[1].failedAt[f] = "transcribe" /\ InferredAgain(f) /\ FinalClass(f) = "Done"
          /\ first[1].infCalls[g] = 1 /\ g \notin first[1].failedOn
          /\ FinalClass(g) = "Skipped"

\* ----------------------------------------------------------------- C21
\* C21: clean is idempotent: whatever its input, no line of its output holds a
\* substring that matches the bracket pattern, is empty, or begins or ends
\* with whitespace, so clean run on its own output returns that output
\* unchanged.
C21_CleanIdempotent ==
    cleaned # NotYet =>
        LET lines == Lines(cleaned[1].outfile)
        IN /\ \A k \in 1..Len(lines) :
                 LET content == SubSeq(lines[k], 1, Len(lines[k]) - 1)
                 IN /\ lines[k][Len(lines[k])] = "\n"
                    /\ ~re_search(lines[k])
                    /\ content # <<>>
                    /\ strip(content) = content
           /\ Len(cleaned) = 2 => cleaned[2].outfile = cleaned[1].outfile

====
